---- MODULE Spec2Model ----
(***************************************************************************)
(* Verification model of go-coap: the UDP connection of net/connUDP.go     *)
(* (reader task, writer task, ReadWithContext, WriteWithContext), the      *)
(* server acceptor (Serve, Stop, createClientConn, GetMID) and the         *)
(* CoAP-over-UDP wire codec (MarshalTo, Unmarshal).                        *)
(***************************************************************************)
EXTENDS Integers, Sequences, FiniteSets, TLC

\* ------------------------------------------------------------------------
\* Bounds of the model
\* ------------------------------------------------------------------------
\* capacity of packetChan and writePacketChan (1024*1024 in the source)
ChanCap == 2
\* datagrams the socket delivers to the reader task
MaxRecv == 4
\* WriteWithContext calls made in one behaviour
MaxSend == 3
\* ReadWithContext calls made in one behaviour
MaxReadCalls == 3
\* longest caller buffer handed to ReadWithContext
MaxBuf == 2

\* concurrent callers of WriteWithContext
Callers == {"w1", "w2"}
\* payloads of the datagrams travelling through the connection
DataSet == {<<7>>, <<8, 9>>}
\* remote addresses
Addrs == {"r1"}

VARIABLES
    \* UDPConn
    packetChan,        \* chan packet: inbound queue filled by the reader task
    writePacketChan,   \* chan writePacket: outbound queue drained by the writer task
    closed,            \* c.connection has been closed
    reader,            \* reader goroutine: [pc, pkt]
    writer,            \* writer goroutine: [pc, pkt]
    wcall,             \* WriteWithContext invocation of each caller, with its result
                       \* and the content its buffer had when the call was made (orig)
    rcall,             \* ReadWithContext invocation of the single consumer, with
                       \* what it returned (ret) and what the call before it returned (prev)
    \* history of the connection
    socketRead,        \* packets ReadFromUDP returned to the reader task, in order
    socketWritten,     \* packets the writer task handed to WriteToUDP, in order
    enqueued,          \* ids of the datagrams placed on writePacketChan, in order
    delivered,         \* packets ReadWithContext returned with a nil error, in order
    nWrites,           \* WriteWithContext calls made
    nReads             \* ReadWithContext calls made

\* inbound side, outbound side
rdVars == <<packetChan, reader, rcall, socketRead, delivered, nReads>>
wrVars == <<writePacketChan, writer, wcall, socketWritten, enqueued, nWrites>>
connVars == <<rdVars, wrVars, closed>>

VARIABLES
    \* Server
    cfg,               \* options the Server was built with
    ctxDone,           \* s.ctx has been cancelled
    listen,            \* s.listen: "nil" or the Serve call that registered its listener
    serve,             \* Serve invocations: [pc, cur, wg, iter, last, reported, result]
    conns,             \* connections returned non-nil by AcceptWithContext
    \* Server.msgID
    msgID,             \* uint32 counter as <<high 16 bits, low 16 bits>>
    mids,              \* values returned by GetMID, in the order of the increments
    \* codec
    msg,               \* Message handed to MarshalTo
    buflen,            \* len(buf) of the buffer handed to MarshalTo
    wire,              \* result of MarshalTo: [err, n, buf]
    out                \* result of Unmarshal on buf[:n]: [err, n, msg]

srvVars == <<cfg, ctxDone, listen, serve, conns>>
midVars == <<msgID, mids>>
codecVars == <<msg, buflen, wire, out>>

VARIABLES
    \* work dispatched through goPool
    tasks,             \* tasks goPool has spawned: [by, fails, st, err, printed]
    submits            \* per session: submissions made and what the last one returned

poolVars == <<tasks, submits>>

VARIABLES
    \* WriteMulticast
    lock,              \* c.lock: "free" or the call that holds it
    mcfg,              \* options of the UDPConn: [connV4, errors, onWriteTimeout]
    mcall,             \* WriteMulticast invocation of each caller
    mcsock,            \* multicast settings of the socket: [by, iface, hopLimit]
    nMcast             \* WriteMulticast calls made

mcVars == <<lock, mcfg, mcall, mcsock, nMcast>>

vars == <<connVars, srvVars, midVars, codecVars, poolVars, mcVars>>

NoPkt == [id |-> 0, data |-> <<>>, addr |-> "nil"]

\* faulty variant: nothing is copied
copyNone(dst, src) == dst

\* copy(dst, src): overwrites the first min(len(dst), len(src)) elements of dst
copy(dst, src) ==
    [i \in 1..Len(dst) |-> IF i <= Len(src) THEN src[i] ELSE dst[i]]

\* make([]byte, n)
make(n) == [i \in 1..n |-> 0]

\* ------------------------------------------------------------------------
\* NewUDPConn: both queues empty, reader and writer tasks started
\* ------------------------------------------------------------------------
NoReturn == [n |-> 0, addr |-> "nil", err |-> "none", id |-> 0, queued |-> 0]

NewUDPConn ==
    /\ packetChan = <<>>
    /\ writePacketChan = <<>>
    /\ closed = FALSE
    /\ reader = [pc |-> "read", pkt |-> NoPkt]
    /\ writer = [pc |-> "range", pkt |-> NoPkt]
    /\ wcall = [c \in Callers |->
                   [pc |-> "idle", ctx |-> FALSE, ctxAtCall |-> FALSE,
                    id |-> 0, buffer |-> <<>>, orig |-> <<>>, data |-> <<>>,
                    result |-> "none"]]
    /\ rcall = [pc |-> "idle", ctx |-> FALSE, buffer |-> <<>>,
                ret |-> NoReturn, prev |-> NoReturn]
    /\ socketRead = <<>>
    /\ socketWritten = <<>>
    /\ enqueued = <<>>
    /\ delivered = <<>>
    /\ nWrites = 0
    /\ nReads = 0

\* ------------------------------------------------------------------------
\* reader goroutine
\* ------------------------------------------------------------------------
\* n, s, err := c.ReadFromUDP(buffer); on error the task returns
ReaderReadFromUDP ==
    /\ reader.pc = "read"
    /\ \E err \in BOOLEAN :
        /\ closed => err
        /\ IF err
           THEN /\ reader' = [pc |-> "stopped", pkt |-> NoPkt]
                /\ UNCHANGED socketRead
           ELSE /\ Len(socketRead) < MaxRecv
                /\ \E d \in DataSet, s \in Addrs :
                     LET p == [id |-> Len(socketRead) + 1, data |-> d, addr |-> s]
                     IN /\ reader' = [pc |-> "send", pkt |-> p]
                        /\ socketRead' = Append(socketRead, p)
    /\ UNCHANGED <<packetChan, rcall, delivered, nReads, wrVars, closed,
                   srvVars, midVars, codecVars, poolVars, mcVars>>

\* faulty variant: a non-blocking send that drops the packet when packetChan is full
ReaderSendOrDrop ==
    /\ reader.pc = "send"
    /\ packetChan' = IF Len(packetChan) < ChanCap
                     THEN Append(packetChan, reader.pkt) ELSE packetChan
    /\ reader' = [pc |-> "read", pkt |-> NoPkt]
    /\ UNCHANGED <<rcall, socketRead, delivered, nReads, wrVars, closed,
                   srvVars, midVars, codecVars, poolVars, mcVars>>

\* packetChan <- packet{addr: s, data: buffer[:n]}
ReaderSend ==
    /\ reader.pc = "send"
    /\ Len(packetChan) < ChanCap
    /\ packetChan' = Append(packetChan, reader.pkt)
    /\ reader' = [pc |-> "read", pkt |-> NoPkt]
    /\ UNCHANGED <<rcall, socketRead, delivered, nReads, wrVars, closed,
                   srvVars, midVars, codecVars, poolVars, mcVars>>

\* ------------------------------------------------------------------------
\* writer goroutine
\* ------------------------------------------------------------------------
\* faulty variant: the writer takes the newest queued datagram instead of the oldest
WriterRangeNewest ==
    /\ writer.pc = "range"
    /\ writePacketChan # <<>>
    /\ writer' = [pc |-> "write", pkt |-> writePacketChan[Len(writePacketChan)]]
    /\ writePacketChan' = SubSeq(writePacketChan, 1, Len(writePacketChan) - 1)
    /\ UNCHANGED <<wcall, socketWritten, enqueued, nWrites, rdVars, closed,
                   srvVars, midVars, codecVars, poolVars, mcVars>>

\* for p := range writePacketChan
WriterRange ==
    /\ writer.pc = "range"
    /\ writePacketChan # <<>>
    /\ writer' = [pc |-> "write", pkt |-> Head(writePacketChan)]
    /\ writePacketChan' = Tail(writePacketChan)
    /\ UNCHANGED <<wcall, socketWritten, enqueued, nWrites, rdVars, closed,
                   srvVars, midVars, codecVars, poolVars, mcVars>>

\* p.connection.SetWriteDeadline(time.Time{});
\* _, err := WriteToUDP(p.connection, p.addr, p.data); on error the task returns
WriterWriteToUDP ==
    /\ writer.pc = "write"
    /\ \E err \in BOOLEAN :
        /\ closed => err
        /\ socketWritten' = Append(socketWritten,
                                   [id |-> writer.pkt.id, data |-> writer.pkt.data,
                                    err |-> err, orig |-> writer.pkt.orig])
        /\ writer' = [pc |-> IF err THEN "stopped" ELSE "range", pkt |-> NoPkt]
    /\ UNCHANGED <<writePacketChan, wcall, enqueued, nWrites, rdVars, closed,
                   srvVars, midVars, codecVars, poolVars, mcVars>>

\* ------------------------------------------------------------------------
\* Close
\* ------------------------------------------------------------------------
Close ==
    /\ ~closed
    /\ closed' = TRUE
    /\ UNCHANGED <<rdVars, wrVars, srvVars, midVars, codecVars, poolVars, mcVars>>

\* ------------------------------------------------------------------------
\* WriteWithContext
\* ------------------------------------------------------------------------
\* the call up to the select: the raddr check and the private copy of buffer
WriteWithContext(c) ==
    /\ wcall[c].pc = "idle"
    /\ nWrites < MaxSend
    /\ nWrites' = nWrites + 1
    /\ \E raddrNil \in BOOLEAN, cancelled \in BOOLEAN, buffer \in DataSet :
        wcall' = [wcall EXCEPT ![c] =
                    IF raddrNil
                    THEN [pc |-> "idle", ctx |-> cancelled, ctxAtCall |-> cancelled,
                          id |-> nWrites + 1, buffer |-> buffer, orig |-> buffer,
                          data |-> <<>>, result |-> "invalid raddr"]
                    ELSE [pc |-> "select", ctx |-> cancelled, ctxAtCall |-> cancelled,
                          id |-> nWrites + 1, buffer |-> buffer, orig |-> buffer,
                          data |-> copy(make(Len(buffer)), buffer),
                          result |-> "none"]]
    /\ UNCHANGED <<writePacketChan, writer, socketWritten, enqueued, rdVars, closed,
                   srvVars, midVars, codecVars, poolVars, mcVars>>

\* faulty variant: the send case does not return; the call goes on into the
\* loop behind the select, takes c.lock and writes buffer to the socket itself
WriteSelectSendFallsThrough(c) ==
    /\ wcall[c].pc = "select"
    /\ Len(writePacketChan) < ChanCap
    /\ lock = "free"
    /\ writePacketChan' = Append(writePacketChan,
                                 [id |-> wcall[c].id, data |-> wcall[c].data,
                                  addr |-> "r1", orig |-> wcall[c].orig])
    /\ enqueued' = Append(enqueued, wcall[c].id)
    /\ socketWritten' = Append(socketWritten,
                               [id |-> wcall[c].id, data |-> wcall[c].buffer,
                                err |-> FALSE, orig |-> wcall[c].orig])
    /\ wcall' = [wcall EXCEPT ![c].pc = "idle", ![c].result = "nil"]
    /\ UNCHANGED <<writer, nWrites, rdVars, closed,
                   srvVars, midVars, codecVars, poolVars, mcVars>>

\* faulty variant: a send on a full queue overwrites the newest queued datagram
WriteSelectSendOverwrite(c) ==
    /\ wcall[c].pc = "select"
    /\ LET pkt == [id |-> wcall[c].id, data |-> wcall[c].data, addr |-> "r1",
                   orig |-> wcall[c].orig]
       IN writePacketChan' =
            IF Len(writePacketChan) < ChanCap
            THEN Append(writePacketChan, pkt)
            ELSE [writePacketChan EXCEPT ![ChanCap] = pkt]
    /\ enqueued' = Append(enqueued, wcall[c].id)
    /\ wcall' = [wcall EXCEPT ![c].pc = "idle", ![c].result = "nil"]
    /\ UNCHANGED <<writer, socketWritten, nWrites, rdVars, closed,
                   srvVars, midVars, codecVars, poolVars, mcVars>>

\* case c.writePacketChan <- writePacket{...}: return nil
WriteSelectSend(c) ==
    /\ wcall[c].pc = "select"
    /\ Len(writePacketChan) < ChanCap
    /\ writePacketChan' = Append(writePacketChan,
                                 [id |-> wcall[c].id, data |-> wcall[c].data,
                                  addr |-> "r1", orig |-> wcall[c].orig])
    /\ enqueued' = Append(enqueued, wcall[c].id)
    /\ wcall' = [wcall EXCEPT ![c].pc = "idle", ![c].result = "nil"]
    /\ UNCHANGED <<writer, socketWritten, nWrites, rdVars, closed,
                   srvVars, midVars, codecVars, poolVars, mcVars>>

\* case <-ctx.Done(): return ctx.Err()
WriteSelectDone(c) ==
    /\ wcall[c].pc = "select"
    /\ wcall[c].ctx
    /\ wcall' = [wcall EXCEPT ![c].pc = "idle", ![c].result = "ctx.Err"]
    /\ UNCHANGED <<writePacketChan, writer, socketWritten, enqueued, nWrites, rdVars,
                   closed, srvVars, midVars, codecVars, poolVars, mcVars>>

\* the caller's context is cancelled while the call waits in the select
CancelWrite(c) ==
    /\ wcall[c].pc = "select"
    /\ ~wcall[c].ctx
    /\ wcall' = [wcall EXCEPT ![c].ctx = TRUE]
    /\ UNCHANGED <<writePacketChan, writer, socketWritten, enqueued, nWrites, rdVars,
                   closed, srvVars, midVars, codecVars, poolVars, mcVars>>

\* after a call has returned nil, its caller overwrites the buffer it had passed
CallerMutatesBuffer(c) ==
    /\ wcall[c].pc = "idle"
    /\ wcall[c].result = "nil"
    /\ \E buffer \in DataSet \ {wcall[c].buffer} :
        wcall' = [wcall EXCEPT ![c].buffer = buffer]
    /\ UNCHANGED <<writePacketChan, writer, socketWritten, enqueued, nWrites, rdVars,
                   closed, srvVars, midVars, codecVars, poolVars, mcVars>>

\* ------------------------------------------------------------------------
\* ReadWithContext (single consumer)
\* ------------------------------------------------------------------------
ReadWithContext ==
    /\ rcall.pc = "idle"
    /\ nReads < MaxReadCalls
    /\ nReads' = nReads + 1
    /\ \E cancelled \in BOOLEAN, n \in 0..MaxBuf :
        rcall' = [pc |-> "select", ctx |-> cancelled, buffer |-> make(n),
                  ret |-> NoReturn, prev |-> rcall.ret]
    /\ UNCHANGED <<packetChan, reader, socketRead, delivered, wrVars, closed,
                   srvVars, midVars, codecVars, poolVars, mcVars>>

\* faulty variant: with the queue empty the call goes on to the socket read
\* behind the select and returns what ReadFromUDP gives it
ReadSelectRecvOrSocket ==
    /\ rcall.pc = "select"
    /\ IF packetChan # <<>>
       THEN LET data == Head(packetChan)
            IN /\ rcall' = [rcall EXCEPT !.pc = "idle",
                                         !.buffer = copy(rcall.buffer, data.data),
                                         !.ret = [n |-> Len(data.data), addr |-> data.addr,
                                                  err |-> "nil", id |-> data.id,
                                                  queued |-> Len(packetChan)]]
               /\ delivered' = Append(delivered, [id |-> data.id, n |-> Len(data.data),
                                                  addr |-> data.addr])
               /\ packetChan' = Tail(packetChan)
       ELSE /\ rcall' = [rcall EXCEPT !.pc = "idle",
                                      !.ret = [n |-> -1, addr |-> "nil",
                                               err |-> "cannot read from udp connection",
                                               id |-> 0, queued |-> 0]]
            /\ UNCHANGED <<delivered, packetChan>>
    /\ UNCHANGED <<reader, socketRead, nReads, wrVars, closed,
                   srvVars, midVars, codecVars, poolVars, mcVars>>

\* case data := <-c.packetChan: copy(buffer, data.data); return len(data.data), data.addr, nil
ReadSelectRecv ==
    /\ rcall.pc = "select"
    /\ packetChan # <<>>
    /\ LET data == Head(packetChan)
       IN /\ rcall' = [rcall EXCEPT !.pc = "idle",
                                    !.buffer = copy(rcall.buffer, data.data),
                                    !.ret = [n |-> Len(data.data), addr |-> data.addr,
                                             err |-> "nil", id |-> data.id,
                                             queued |-> Len(packetChan)]]
          /\ delivered' = Append(delivered, [id |-> data.id, n |-> Len(data.data),
                                             addr |-> data.addr])
    /\ packetChan' = Tail(packetChan)
    /\ UNCHANGED <<reader, socketRead, nReads, wrVars, closed,
                   srvVars, midVars, codecVars, poolVars, mcVars>>

\* faulty variant: the cancelled call takes a queued packet with it
ReadSelectDoneTakes ==
    /\ rcall.pc = "select"
    /\ rcall.ctx
    /\ rcall' = [rcall EXCEPT !.pc = "idle",
                              !.ret = [n |-> -1, addr |-> "nil", err |-> "ctx.Err",
                                       id |-> 0, queued |-> Len(packetChan)]]
    /\ packetChan' = IF packetChan = <<>> THEN packetChan ELSE Tail(packetChan)
    /\ UNCHANGED <<reader, socketRead, delivered, nReads, wrVars, closed,
                   srvVars, midVars, codecVars, poolVars, mcVars>>

\* case <-ctx.Done(): return -1, nil, ctx.Err()
ReadSelectDone ==
    /\ rcall.pc = "select"
    /\ rcall.ctx
    /\ rcall' = [rcall EXCEPT !.pc = "idle",
                              !.ret = [n |-> -1, addr |-> "nil", err |-> "ctx.Err",
                                       id |-> 0, queued |-> Len(packetChan)]]
    /\ UNCHANGED <<packetChan, reader, socketRead, delivered, nReads, wrVars, closed,
                   srvVars, midVars, codecVars, poolVars, mcVars>>

\* the consumer's context is cancelled while the call waits in the select
CancelRead ==
    /\ rcall.pc = "select"
    /\ ~rcall.ctx
    /\ rcall' = [rcall EXCEPT !.ctx = TRUE]
    /\ UNCHANGED <<packetChan, reader, socketRead, delivered, nReads, wrVars, closed,
                   srvVars, midVars, codecVars, poolVars, mcVars>>

\* ------------------------------------------------------------------------
\* Server
\* ------------------------------------------------------------------------
\* blockwise.SZX1024, the largest block size exponent Serve admits
SZX1024 == 6
\* accepted connections in one behaviour
MaxConns == 2
\* concurrent Serve calls, each with its own listener
Calls == {"s1", "s2"}

NoServe == [pc |-> "idle", cur |-> 0, wg |-> 0, iter |-> 0, last |-> "none",
            reported |-> FALSE, result |-> "none"]

\* NewServer: the context is live, no listener is registered
NewServer ==
    /\ cfg \in [blockwiseSZX : {SZX1024, SZX1024 + 1},
                keepalive : BOOLEAN,
                onNewClientConn : BOOLEAN]
    /\ ctxDone = FALSE
    /\ listen = "nil"
    /\ serve = [s \in Calls |-> NoServe]
    /\ conns = <<>>

\* faulty variant: Serve without the block size check
ServeUnchecked(s) ==
    /\ serve[s].pc \in {"idle", "returned"}
    /\ serve' = [serve EXCEPT ![s] = [NoServe EXCEPT !.pc = "lock"]]
    /\ UNCHANGED <<cfg, ctxDone, listen, conns, connVars, midVars, codecVars, poolVars, mcVars>>

\* Serve is called: the block size check, then a fresh WaitGroup
Serve(s) ==
    /\ serve[s].pc \in {"idle", "returned"}
    /\ serve' = [serve EXCEPT ![s] =
                    IF cfg.blockwiseSZX > SZX1024
                    THEN [NoServe EXCEPT !.pc = "returned",
                                         !.result = "invalid blockwiseSZX"]
                    ELSE [NoServe EXCEPT !.pc = "lock"]]
    /\ serve'[s] # serve[s]
    /\ UNCHANGED <<cfg, ctxDone, listen, conns, connVars, midVars, codecVars, poolVars, mcVars>>

\* faulty variant: the listener is registered without looking at s.listen
ServeLockReplaces(s) ==
    /\ serve[s].pc = "lock"
    /\ listen' = s
    /\ serve' = [serve EXCEPT ![s].pc = "accept"]
    /\ UNCHANGED <<cfg, ctxDone, conns, connVars, midVars, codecVars, poolVars, mcVars>>

\* s.listenMutex.Lock(); if s.listen != nil { return error }; s.listen = l
ServeLock(s) ==
    /\ serve[s].pc = "lock"
    /\ IF listen # "nil"
       THEN /\ serve' = [serve EXCEPT ![s].pc = "returned",
                                      ![s].result = "server already serve listener"]
            /\ UNCHANGED listen
       ELSE /\ listen' = s
            /\ serve' = [serve EXCEPT ![s].pc = "accept"]
    /\ UNCHANGED <<cfg, ctxDone, conns, connVars, midVars, codecVars, poolVars, mcVars>>

\* faulty variant: a context error of AcceptWithContext ends the accept loop
\* whether or not s.ctx is done
AcceptReturnsOnError(s) ==
    /\ serve[s].pc = "accept"
    /\ \E r \in {"conn", "nil", "ctx", "other"} :
        LET it == 1 - serve[s].iter IN
        CASE r = "conn" ->
                /\ Len(conns) < MaxConns
                /\ conns' = Append(conns, [owner |-> s, sessions |-> 0, onNew |-> 0,
                                           runs |-> 0, keepalives |-> 0,
                                           onNewBeforeRun |-> FALSE,
                                           run |-> "none", keepalive |-> "none"])
                /\ serve' = [serve EXCEPT ![s].pc = "create",
                                          ![s].cur = Len(conns) + 1,
                                          ![s].wg = @ + 1,
                                          ![s].iter = it, ![s].last = r,
                                          ![s].reported = FALSE]
          [] r = "nil" ->
                /\ serve' = [serve EXCEPT ![s].iter = it, ![s].last = r,
                                          ![s].reported = FALSE]
                /\ UNCHANGED conns
          [] r = "ctx" ->
                /\ serve' = [serve EXCEPT ![s].iter = it, ![s].last = r,
                                          ![s].reported = FALSE,
                                          ![s].pc = "wait"]
                /\ UNCHANGED conns
          [] r = "other" ->
                /\ serve' = [serve EXCEPT ![s].iter = it, ![s].last = r,
                                          ![s].reported = FALSE]
                /\ UNCHANGED conns
    /\ UNCHANGED <<cfg, ctxDone, listen, connVars, midVars, codecVars, poolVars, mcVars>>

\* rw, err := l.AcceptWithContext(s.ctx) and the switch on err: a context error
\* ends the loop if s.ctx is done and goes to s.errors otherwise, any other
\* error is skipped; for a non-nil rw the wg.Add(1) that precedes createClientConn
Accept(s) ==
    /\ serve[s].pc = "accept"
    /\ \E r \in {"conn", "nil", "ctx", "other"} :
        LET it == 1 - serve[s].iter IN
        CASE r = "conn" ->
                /\ Len(conns) < MaxConns
                /\ conns' = Append(conns, [owner |-> s, sessions |-> 0, onNew |-> 0,
                                           runs |-> 0, keepalives |-> 0,
                                           onNewBeforeRun |-> FALSE,
                                           run |-> "none", keepalive |-> "none"])
                /\ serve' = [serve EXCEPT ![s].pc = "create",
                                          ![s].cur = Len(conns) + 1,
                                          ![s].wg = @ + 1,
                                          ![s].iter = it, ![s].last = r,
                                          ![s].reported = FALSE]
          [] r = "nil" ->
                /\ serve' = [serve EXCEPT ![s].iter = it, ![s].last = r,
                                          ![s].reported = FALSE]
                /\ UNCHANGED conns
          [] r = "ctx" ->
                /\ serve' = [serve EXCEPT ![s].iter = it, ![s].last = r,
                                          ![s].reported = ~ctxDone,
                                          ![s].pc = IF ctxDone THEN "wait" ELSE "accept"]
                /\ UNCHANGED conns
          [] r = "other" ->
                /\ serve' = [serve EXCEPT ![s].iter = it, ![s].last = r,
                                          ![s].reported = FALSE]
                /\ UNCHANGED conns
    /\ UNCHANGED <<cfg, ctxDone, listen, connVars, midVars, codecVars, poolVars, mcVars>>

\* faulty variant: return nil without wg.Wait()
ServeNoWait(s) ==
    /\ serve[s].pc = "wait"
    /\ serve' = [serve EXCEPT ![s].pc = "returned", ![s].result = "nil"]
    /\ listen' = "nil"
    /\ UNCHANGED <<cfg, ctxDone, conns, connVars, midVars, codecVars, poolVars, mcVars>>

\* wg.Wait(); return nil; the deferred function clears s.listen
ServeWait(s) ==
    /\ serve[s].pc = "wait"
    /\ serve[s].wg = 0
    /\ serve' = [serve EXCEPT ![s].pc = "returned", ![s].result = "nil"]
    /\ listen' = "nil"
    /\ UNCHANGED <<cfg, ctxDone, conns, connVars, midVars, codecVars, poolVars, mcVars>>

\* cc := s.createClientConn(coapNet.NewConn(rw, ...)): one session, one ClientConn
createClientConn(s) ==
    /\ serve[s].pc = "create"
    /\ conns' = [conns EXCEPT ![serve[s].cur].sessions = @ + 1]
    /\ serve' = [serve EXCEPT ![s].pc = "onNew"]
    /\ UNCHANGED <<cfg, ctxDone, listen, connVars, midVars, codecVars, poolVars, mcVars>>

\* if s.onNewClientConn != nil { s.onNewClientConn(cc) }
ServeOnNewClientConn(s) ==
    /\ serve[s].pc = "onNew"
    /\ conns' = [conns EXCEPT ![serve[s].cur].onNew =
                    IF cfg.onNewClientConn THEN @ + 1 ELSE @]
    /\ serve' = [serve EXCEPT ![s].pc = "goRun"]
    /\ UNCHANGED <<cfg, ctxDone, listen, connVars, midVars, codecVars, poolVars, mcVars>>

\* go func() { defer wg.Done(); err := cc.Run(); ... }()
ServeGoRun(s) ==
    /\ serve[s].pc = "goRun"
    /\ conns' = [conns EXCEPT ![serve[s].cur].run = "running",
                              ![serve[s].cur].runs = @ + 1,
                              ![serve[s].cur].onNewBeforeRun =
                                  conns[serve[s].cur].onNew > 0]
    /\ serve' = [serve EXCEPT ![s].pc = "goKeepalive"]
    /\ UNCHANGED <<cfg, ctxDone, listen, connVars, midVars, codecVars, poolVars, mcVars>>

\* faulty variant: the keepalive worker is started whether or not a keepalive is configured
ServeGoKeepaliveAlways(s) ==
    /\ serve[s].pc = "goKeepalive"
    /\ conns' = [conns EXCEPT ![serve[s].cur].keepalive = "running",
                              ![serve[s].cur].keepalives = @ + 1]
    /\ serve' = [serve EXCEPT ![s].pc = "accept", ![s].wg = @ + 1]
    /\ UNCHANGED <<cfg, ctxDone, listen, connVars, midVars, codecVars, poolVars, mcVars>>

\* if s.keepalive != nil { wg.Add(1); go func() { defer wg.Done(); s.keepalive.Run(cc) }() }
ServeGoKeepalive(s) ==
    /\ serve[s].pc = "goKeepalive"
    /\ IF cfg.keepalive
       THEN /\ conns' = [conns EXCEPT ![serve[s].cur].keepalive = "running",
                                      ![serve[s].cur].keepalives = @ + 1]
            /\ serve' = [serve EXCEPT ![s].pc = "accept", ![s].wg = @ + 1]
       ELSE /\ serve' = [serve EXCEPT ![s].pc = "accept"]
            /\ UNCHANGED conns
    /\ UNCHANGED <<cfg, ctxDone, listen, connVars, midVars, codecVars, poolVars, mcVars>>

\* cc.Run() returns in the worker goroutine; the deferred wg.Done() runs
RunReturns(c) ==
    /\ c \in 1..Len(conns)
    /\ conns[c].run = "running"
    /\ conns' = [conns EXCEPT ![c].run = "done"]
    /\ serve' = [serve EXCEPT ![conns[c].owner].wg = @ - 1]
    /\ UNCHANGED <<cfg, ctxDone, listen, connVars, midVars, codecVars, poolVars, mcVars>>

\* s.keepalive.Run(cc) returns in the worker goroutine; the deferred wg.Done() runs
KeepaliveReturns(c) ==
    /\ c \in 1..Len(conns)
    /\ conns[c].keepalive = "running"
    /\ conns' = [conns EXCEPT ![c].keepalive = "done"]
    /\ serve' = [serve EXCEPT ![conns[c].owner].wg = @ - 1]
    /\ UNCHANGED <<cfg, ctxDone, listen, connVars, midVars, codecVars, poolVars, mcVars>>

\* Stop: s.cancel()
Stop ==
    /\ ~ctxDone
    /\ ctxDone' = TRUE
    /\ UNCHANGED <<cfg, listen, serve, conns, connVars, midVars, codecVars, poolVars, mcVars>>

\* ------------------------------------------------------------------------
\* Server.GetMID
\* ------------------------------------------------------------------------
\* GetMID calls made in one behaviour
MaxMIDCalls == 5
\* starting values of the counter (rand.Read in NewServer): high and low halves
MIDHigh == {0, 1, 32768, 65534, 65535}
MIDLow == {0, 65533, 65534, 65535}

\* atomic.AddUint32(&x, 1) on the two 16-bit halves of x, wrapping at 2^32
AddUint32(x) ==
    LET lo == (x[2] + 1) % 65536
        hi == IF x[2] = 65535 THEN (x[1] + 1) % 65536 ELSE x[1]
    IN <<hi, lo>>

\* x % m for the uint32 x = x[1] * 2^16 + x[2] and 0 < m <= 2^16
ModUint32(x, m) == ((x[1] % m) * (65536 % m) + (x[2] % m)) % m

\* uint16(v)
uint16(v) == v % 65536

\* return uint16(atomic.AddUint32(&s.msgID, 1) % 0xffff)
GetMIDValue(x) == uint16(ModUint32(x, 65535))

GetMID ==
    /\ Len(mids) < MaxMIDCalls
    /\ msgID' = AddUint32(msgID)
    /\ mids' = Append(mids, GetMIDValue(msgID'))
    /\ UNCHANGED <<connVars, srvVars, codecVars, poolVars, mcVars>>

\* ------------------------------------------------------------------------
\* Codec: Message, MarshalTo, Unmarshal (section 4.1 of the specification)
\* ------------------------------------------------------------------------
\* options of one generated Message
MaxOpts == 2

\* Message{}: Confirmable, code 0, message id 0, no token, no options, no payload
NoMessage == [type |-> 0, code |-> 0, mid |-> 0, token |-> <<>>, options |-> <<>>,
              payload |-> <<>>]
NoResult == [err |-> "none"]

\* codes.GET
GET == 1

Bytes(n, b) == [i \in 1..n |-> b]

\* option table: declared length bounds of the options the model uses
\* (If-None-Match: empty; Uri-Path: string, 0..255; Content-Format: uint, 0..2)
MinLen(id) == 0
MaxLen(id) ==
    CASE id = 5 -> 0
      [] id = 11 -> 255
      [] id = 12 -> 2
      [] OTHER -> 65535 + 269

\* validate(number, value)
validate(o) == Len(o.value) >= MinLen(o.id) /\ Len(o.value) <= MaxLen(o.id)

\* nibble of a delta or length: 0..12 mean themselves, 13 one extra byte,
\* 14 two extra bytes
Nibble(v) == IF v < 13 THEN v ELSE IF v < 269 THEN 13 ELSE 14

\* the extended delta or length bytes
Extended(v) ==
    IF v < 13 THEN <<>>
    ELSE IF v < 269 THEN <<v - 13>>
    ELSE <<(v - 269) \div 256, (v - 269) % 256>>

\* DELTA_NIBBLE LENGTH_NIBBLE [extended delta] [extended length] VALUE
MarshalOption(prev, o) ==
    <<Nibble(o.id - prev) * 16 + Nibble(Len(o.value))>>
        \o Extended(o.id - prev) \o Extended(Len(o.value)) \o o.value

RECURSIVE MarshalOptions(_, _)
MarshalOptions(opts, prev) ==
    IF opts = <<>> THEN <<>>
    ELSE MarshalOption(prev, Head(opts)) \o MarshalOptions(Tail(opts), Head(opts).id)

\* insert o behind the options whose number is not greater
RECURSIVE Insert(_, _)
Insert(sorted, o) ==
    IF sorted = <<>> THEN <<o>>
    ELSE IF Head(sorted).id <= o.id THEN <<Head(sorted)>> \o Insert(Tail(sorted), o)
    ELSE <<o>> \o sorted

\* faulty variant: an unstable sort, o goes in front of the options with its own number
RECURSIVE InsertBefore(_, _)
InsertBefore(sorted, o) ==
    IF sorted = <<>> THEN <<o>>
    ELSE IF Head(sorted).id < o.id THEN <<Head(sorted)>> \o InsertBefore(Tail(sorted), o)
    ELSE <<o>> \o sorted

RECURSIVE SortUnstable(_)
SortUnstable(opts) ==
    IF opts = <<>> THEN <<>>
    ELSE InsertBefore(SortUnstable(SubSeq(opts, 1, Len(opts) - 1)), opts[Len(opts)])

\* the encoder sorts the options by number, stably
RECURSIVE Sort(_)
Sort(opts) ==
    IF opts = <<>> THEN <<>>
    ELSE Insert(Sort(SubSeq(opts, 1, Len(opts) - 1)), opts[Len(opts)])

\* byte 0: VV TT TKL; byte 1: CODE; bytes 2-3: MESSAGE_ID big-endian
Header(m) ==
    <<64 + m.type * 16 + Len(m.token), m.code, m.mid \div 256, m.mid % 256>>

\* faulty variant: the marker is written for an empty payload too
MarshalPayloadAlways(payload) == <<255>> \o payload

\* the 0xFF marker and the payload, if any
MarshalPayload(payload) == IF payload = <<>> THEN <<>> ELSE <<255>> \o payload

\* MarshalTo(buf): the datagram and its length, or an error
MarshalTo(m, n) ==
    IF Len(m.token) > 8 THEN [err |-> "InvalidToken"]
    ELSE IF \E i \in 1..Len(m.options) : ~validate(m.options[i])
    THEN [err |-> "InvalidOption"]
    ELSE LET b == Header(m) \o m.token \o MarshalOptions(Sort(m.options), 0)
                            \o MarshalPayload(m.payload)
         IN IF Len(b) > n THEN [err |-> "BufferTooSmall"]
            ELSE [err |-> "nil", n |-> Len(b), buf |-> b]

\* bytes that follow the first byte of an option for nibble v
ExtendedLen(v) == IF v = 13 THEN 1 ELSE IF v = 14 THEN 2 ELSE 0

\* the delta or length announced by nibble v and the extended bytes at data[i]
ExtendedValue(v, data, i) ==
    IF v = 13 THEN data[i] + 13
    ELSE IF v = 14 THEN data[i] * 256 + data[i + 1] + 269
    ELSE v

\* options and payload of the datagram from data[i] on
RECURSIVE UnmarshalOptions(_, _, _, _)
UnmarshalOptions(data, i, prev, acc) ==
    IF i > Len(data) THEN [err |-> "nil", options |-> acc, payload |-> <<>>, marker |-> 0]
    ELSE IF data[i] = 255
    THEN IF i = Len(data) THEN [err |-> "MissingPayload"]
         ELSE [err |-> "nil", options |-> acc,
               payload |-> SubSeq(data, i + 1, Len(data)), marker |-> i]
    ELSE LET dn == data[i] \div 16
             ln == data[i] % 16
         IN IF dn = 15 \/ ln = 15 THEN [err |-> "ReservedNibble"]
            ELSE IF i + ExtendedLen(dn) + ExtendedLen(ln) > Len(data)
            THEN [err |-> "Truncated"]
            ELSE LET delta == ExtendedValue(dn, data, i + 1)
                     length == ExtendedValue(ln, data, i + 1 + ExtendedLen(dn))
                     start == i + 1 + ExtendedLen(dn) + ExtendedLen(ln)
                 IN IF prev + delta > 65535 THEN [err |-> "OptionOverflow"]
                    ELSE IF start + length - 1 > Len(data) THEN [err |-> "Truncated"]
                    ELSE UnmarshalOptions(data, start + length, prev + delta,
                             Append(acc, [id |-> prev + delta,
                                          value |-> SubSeq(data, start, start + length - 1)]))

\* Unmarshal(data): the Message and the number of bytes consumed, or an error
Unmarshal(data) ==
    IF Len(data) < 4 THEN [err |-> "Truncated"]
    ELSE LET tkl == data[1] % 16 IN
         IF tkl > 8 THEN [err |-> "InvalidToken"]
         ELSE IF Len(data) < 4 + tkl THEN [err |-> "Truncated"]
         ELSE LET r == UnmarshalOptions(data, 5 + tkl, 0, <<>>)
              IN IF r.err # "nil" THEN [err |-> r.err]
                 ELSE [err |-> "nil", n |-> Len(data), marker |-> r.marker,
                       msg |-> [type |-> (data[1] \div 16) % 4,
                                code |-> data[2],
                                mid |-> data[3] * 256 + data[4],
                                token |-> SubSeq(data, 5, 4 + tkl),
                                options |-> r.options,
                                payload |-> r.payload]]

\* the comparison of testUnmarshalMessage: code, payload, token and the options
\* one by one
SameMessage(a, b) ==
    /\ a.code = b.code
    /\ a.payload = b.payload
    /\ a.token = b.token
    /\ Len(a.options) = Len(b.options)
    /\ \A i \in 1..Len(a.options) :
         i <= Len(b.options) =>
            /\ a.options[i].id = b.options[i].id
            /\ a.options[i].value = b.options[i].value

\* options.SetPath("/a/b/c/d/e") and options.SetContentFormat(TextPlain)
TestOptions ==
    <<[id |-> 11, value |-> <<97>>], [id |-> 11, value |-> <<98>>],
      [id |-> 11, value |-> <<99>>], [id |-> 11, value |-> <<100>>],
      [id |-> 11, value |-> <<101>>], [id |-> 12, value |-> <<>>]>>

\* the messages and datagrams of TestMarshalMessage and TestUnmarshalMessage
TestVectors ==
    <<[msg |-> NoMessage, bytes |-> <<64, 0, 0, 0>>],
      [msg |-> [NoMessage EXCEPT !.code = GET], bytes |-> <<64, GET, 0, 0>>],
      [msg |-> [NoMessage EXCEPT !.code = GET, !.payload = <<1>>],
       bytes |-> <<64, GET, 0, 0, 255, 1>>],
      [msg |-> [NoMessage EXCEPT !.code = GET, !.payload = <<1>>, !.token = <<1, 2, 3>>],
       bytes |-> <<67, GET, 0, 0, 1, 2, 3, 255, 1>>],
      [msg |-> [NoMessage EXCEPT !.code = GET, !.payload = <<1>>, !.token = <<1, 2, 3>>,
                                 !.options = TestOptions],
       bytes |-> <<67, 1, 0, 0, 1, 2, 3, 177, 97, 1, 98, 1, 99, 1, 100, 1, 101, 16,
                   255, 1>>]>>

\* the generated messages
Types == {0, 1}
Codes == {GET, 69}
MessageIDs == {0, 12345}
Tokens == {<<>>, <<1, 2, 3>>, <<1, 2, 3, 4, 5, 6, 7, 8>>, <<1, 2, 3, 4, 5, 6, 7, 8, 9>>}
Payloads == {<<>>, <<1>>, <<255, 0>>}
OptionPool ==
    {[id |-> 5, value |-> <<>>], [id |-> 5, value |-> <<1>>],
     [id |-> 11, value |-> <<97>>], [id |-> 11, value |-> <<98>>],
     [id |-> 11, value |-> Bytes(13, 120)], [id |-> 12, value |-> <<>>],
     [id |-> 35, value |-> <<255>>], [id |-> 300, value |-> <<1>>],
     [id |-> 65000, value |-> Bytes(269, 7)]}
OptionSeqs == UNION {[1..k -> OptionPool] : k \in 0..MaxOpts}
Messages ==
    [type : Types, code : Codes, mid : MessageIDs, token : Tokens,
     options : OptionSeqs, payload : Payloads]
\* buf := make([]byte, 1024), and a buffer that is too small for most messages
BufLens == {8, 1024}

\* length, err := msg.MarshalTo(buf)
CallMarshalTo ==
    /\ wire.err = "none"
    /\ wire' = MarshalTo(msg, buflen)
    /\ UNCHANGED <<msg, buflen, out, connVars, srvVars, midVars, poolVars, mcVars>>

\* length, err := msg.Unmarshal(buf[:length])
CallUnmarshal ==
    /\ wire.err = "nil"
    /\ out.err = "none"
    /\ out' = Unmarshal(SubSeq(wire.buf, 1, wire.n))
    /\ UNCHANGED <<msg, buflen, wire, connVars, srvVars, midVars, poolVars, mcVars>>

\* ------------------------------------------------------------------------
\* WriteMulticast, writeToAddr
\* ------------------------------------------------------------------------
\* WriteMulticast calls made in one behaviour
MaxMulticast == 2
\* concurrent callers of WriteMulticast
Mcasters == {"m1", "m2"}

\* net.Interfaces(): a multicast interface with two IPv4 addresses, one without
\* the multicast flag, one without addresses, one whose Addrs() fails, and a
\* multicast interface with an IPv6 and an IPv4 address
Interfaces ==
    << [name |-> "eth0", multicast |-> TRUE, addrsErr |-> FALSE, addrs |-> <<"v4", "v4">>],
       [name |-> "lo", multicast |-> FALSE, addrsErr |-> FALSE, addrs |-> <<"v4">>],
       [name |-> "tun0", multicast |-> TRUE, addrsErr |-> FALSE, addrs |-> <<>>],
       [name |-> "ppp0", multicast |-> TRUE, addrsErr |-> TRUE, addrs |-> <<>>],
       [name |-> "wlan0", multicast |-> TRUE, addrsErr |-> FALSE, addrs |-> <<"v6", "v4">>] >>

NoMcall == [pc |-> "idle", ctx |-> FALSE, raddr |-> "nil", i |-> 0, a |-> 0,
            log |-> <<>>, reported |-> 0, timeouts |-> 0, result |-> "none"]

\* NewUDPConn: the options of the connection, c.lock free
NewMulticast ==
    /\ lock = "free"
    /\ mcfg \in [connV4 : BOOLEAN, errors : BOOLEAN, onWriteTimeout : BOOLEAN]
    /\ mcall = [m \in Mcasters |-> NoMcall]
    /\ mcsock = [by |-> "none", iface |-> 0]
    /\ nMcast = 0

\* the interface is skipped: no multicast flag, Addrs() failed, or no address
Skipped(iface) == ~iface.multicast \/ iface.addrsErr \/ Len(iface.addrs) = 0

\* WriteMulticast up to c.lock.Lock(): the raddr checks and net.Interfaces()
WriteMulticast(m) ==
    /\ mcall[m].pc = "idle"
    /\ nMcast < MaxMulticast
    /\ nMcast' = nMcast + 1
    /\ \E raddr \in {"nil", "v4", "v6"}, cancelled \in BOOLEAN, ifacesErr \in BOOLEAN :
        mcall' = [mcall EXCEPT ![m] =
                    [NoMcall EXCEPT
                        !.ctx = cancelled,
                        !.raddr = raddr,
                        !.pc = IF raddr = "nil" \/ (mcfg.connV4 /\ raddr = "v6") \/ ifacesErr
                               THEN "idle" ELSE "lock",
                        !.result = IF raddr = "nil" THEN "invalid raddr"
                                   ELSE IF mcfg.connV4 /\ raddr = "v6"
                                        THEN "invalid destination address"
                                   ELSE IF ifacesErr THEN "cannot get interfaces"
                                   ELSE "none"]]
    /\ UNCHANGED <<lock, mcfg, mcsock, connVars, srvVars, midVars, codecVars, poolVars>>

\* faulty variant: the interface loop is entered without taking c.lock
McastNoLock(m) ==
    /\ mcall[m].pc = "lock"
    /\ mcall' = [mcall EXCEPT ![m].pc = "iface", ![m].i = 1]
    /\ UNCHANGED <<lock, mcfg, mcsock, nMcast, connVars, srvVars, midVars, codecVars,
                   poolVars>>

\* c.lock.Lock(); defer c.lock.Unlock()
McastLock(m) ==
    /\ mcall[m].pc = "lock"
    /\ lock = "free"
    /\ lock' = m
    /\ mcall' = [mcall EXCEPT ![m].pc = "iface", ![m].i = 1]
    /\ UNCHANGED <<mcfg, mcsock, nMcast, connVars, srvVars, midVars, codecVars, poolVars>>

\* for _, iface := range ifaces: the three skips and the ctx.Done() check; after
\* the last interface return nil; every return runs the deferred c.lock.Unlock()
McastNextIface(m) ==
    /\ mcall[m].pc = "iface"
    /\ LET i == mcall[m].i IN
        IF i > Len(Interfaces)
        THEN /\ mcall' = [mcall EXCEPT ![m].pc = "idle", ![m].result = "nil"]
             /\ lock' = "free"
        ELSE IF Skipped(Interfaces[i])
        THEN /\ mcall' = [mcall EXCEPT ![m].i = i + 1]
             /\ UNCHANGED lock
        ELSE IF mcall[m].ctx
        THEN /\ mcall' = [mcall EXCEPT ![m].pc = "idle", ![m].result = "ctx.Err"]
             /\ lock' = "free"
        ELSE /\ mcall' = [mcall EXCEPT ![m].pc = "addr", ![m].a = 1]
             /\ UNCHANGED lock
    /\ UNCHANGED <<mcfg, mcsock, nMcast, connVars, srvVars, midVars, codecVars, poolVars>>

\* faulty variant: the first failed send ends WriteMulticast with an error
McastWriteToAddrAborts(m) ==
    /\ mcall[m].pc = "addr"
    /\ LET i == mcall[m].i
           a == mcall[m].a
           addrs == Interfaces[i].addrs
       IN
        IF a > Len(addrs)
        THEN /\ mcall' = [mcall EXCEPT ![m].pc = "iface", ![m].i = i + 1]
             /\ UNCHANGED <<lock, mcsock>>
        ELSE IF addrs[a] # mcall[m].raddr
        THEN /\ mcall' = [mcall EXCEPT ![m].a = a + 1]
             /\ UNCHANGED <<lock, mcsock>>
        ELSE \E outcome \in {"ok", "temporary", "error"} :
               LET log == Append(mcall[m].log,
                                 [iface |-> i, addr |-> a, outcome |-> outcome])
               IN /\ mcsock' = [by |-> m, iface |-> i]
                  /\ IF outcome = "ok"
                     THEN /\ mcall' = [mcall EXCEPT ![m].log = log, ![m].a = a + 1]
                          /\ UNCHANGED lock
                     ELSE /\ mcall' = [mcall EXCEPT ![m].log = log, ![m].pc = "idle",
                                                    ![m].result = "send error"]
                          /\ lock' = "free"
    /\ UNCHANGED <<mcfg, nMcast, connVars, srvVars, midVars, codecVars, poolVars>>

\* for _, ifaceAddr := range ifaceAddrs: err = c.writeToAddr(...) and the
\* handling of err. writeToAddr returns nil without sending when the address
\* family of ifaceAddr is not the one of raddr; otherwise it sets the multicast
\* interface, the hop limit and the write deadline and calls WriteTo
McastWriteToAddr(m) ==
    /\ mcall[m].pc = "addr"
    /\ LET i == mcall[m].i
           a == mcall[m].a
           addrs == Interfaces[i].addrs
       IN
        IF a > Len(addrs)
        THEN /\ mcall' = [mcall EXCEPT ![m].pc = "iface", ![m].i = i + 1]
             /\ UNCHANGED <<lock, mcsock>>
        ELSE IF addrs[a] # mcall[m].raddr
        THEN /\ mcall' = [mcall EXCEPT ![m].a = a + 1]
             /\ UNCHANGED <<lock, mcsock>>
        ELSE \E outcome \in {"ok", "temporary", "error"} :
             \E timeoutErr \in IF outcome = "temporary" /\ mcfg.onWriteTimeout
                                THEN BOOLEAN ELSE {FALSE} :
               LET log == Append(mcall[m].log,
                                 [iface |-> i, addr |-> a, outcome |-> outcome])
               IN /\ mcsock' = [by |-> m, iface |-> i]
                  /\ CASE outcome = "ok" ->
                            /\ mcall' = [mcall EXCEPT ![m].log = log, ![m].a = a + 1]
                            /\ UNCHANGED lock
                       [] outcome = "temporary" ->
                            IF mcfg.onWriteTimeout /\ timeoutErr
                            THEN /\ mcall' = [mcall EXCEPT
                                                ![m].log = log,
                                                ![m].timeouts = @ + 1,
                                                ![m].pc = "idle",
                                                ![m].result = "on timeout returns error"]
                                 /\ lock' = "free"
                            ELSE /\ mcall' = [mcall EXCEPT
                                                ![m].log = log,
                                                ![m].timeouts =
                                                    IF mcfg.onWriteTimeout THEN @ + 1 ELSE @,
                                                ![m].pc = "iface",
                                                ![m].i = i + 1]
                                 /\ UNCHANGED lock
                       [] outcome = "error" ->
                            /\ mcall' = [mcall EXCEPT
                                            ![m].log = log,
                                            ![m].reported =
                                                IF mcfg.errors THEN @ + 1 ELSE @,
                                            ![m].a = a + 1]
                            /\ UNCHANGED lock
    /\ UNCHANGED <<mcfg, nMcast, connVars, srvVars, midVars, codecVars, poolVars>>

\* the caller's context is cancelled while WriteMulticast runs
CancelMcast(m) ==
    /\ mcall[m].pc \in {"lock", "iface", "addr"}
    /\ ~mcall[m].ctx
    /\ mcall' = [mcall EXCEPT ![m].ctx = TRUE]
    /\ UNCHANGED <<lock, mcfg, mcsock, nMcast, connVars, srvVars, midVars, codecVars,
                   poolVars>>

\* ------------------------------------------------------------------------
\* defaultServerOptions.goPool
\* ------------------------------------------------------------------------
\* functions submitted through goPool in one behaviour
MaxTasks == 3
\* sessions whose reader submits handler work
Sessions == {"cc1", "cc2"}

NoSubmit == [n |-> 0, result |-> "none"]

\* no work has been submitted
NewPool ==
    /\ tasks = <<>>
    /\ submits = [s \in Sessions |-> NoSubmit]

\* faulty variant: f runs in the submitter and its error is returned
goPoolInline(s) ==
    /\ Len(tasks) < MaxTasks
    /\ \E fails \in BOOLEAN :
        /\ tasks' = Append(tasks, [by |-> s, fails |-> fails, st |-> "done",
                                   err |-> IF fails THEN "error" ELSE "nil",
                                   printed |-> FALSE])
        /\ submits' = [submits EXCEPT ![s] =
                          [n |-> @.n + 1,
                           result |-> IF fails THEN "error" ELSE "nil"]]
    /\ UNCHANGED <<connVars, srvVars, midVars, codecVars, mcVars>>

\* goPool(f): go func() { ... }(); return nil
goPool(s) ==
    /\ Len(tasks) < MaxTasks
    /\ \E fails \in BOOLEAN :
        /\ tasks' = Append(tasks, [by |-> s, fails |-> fails, st |-> "spawned",
                                   err |-> "none", printed |-> FALSE])
        /\ submits' = [submits EXCEPT ![s] = [n |-> @.n + 1, result |-> "nil"]]
    /\ UNCHANGED <<connVars, srvVars, midVars, codecVars, mcVars>>

\* the spawned goroutine calls f
TaskCall(t) ==
    /\ t \in 1..Len(tasks)
    /\ tasks[t].st = "spawned"
    /\ tasks' = [tasks EXCEPT ![t].st = "running"]
    /\ UNCHANGED <<submits, connVars, srvVars, midVars, codecVars, mcVars>>

\* err := f(); if err != nil { fmt.Println(err) }
TaskReturn(t) ==
    /\ t \in 1..Len(tasks)
    /\ tasks[t].st = "running"
    /\ tasks' = [tasks EXCEPT ![t].st = "done",
                              ![t].err = IF tasks[t].fails THEN "error" ELSE "nil",
                              ![t].printed = tasks[t].fails]
    /\ UNCHANGED <<submits, connVars, srvVars, midVars, codecVars, mcVars>>

\* ------------------------------------------------------------------------
\* Specifications
\* ------------------------------------------------------------------------
ServerIdle ==
    /\ cfg = [blockwiseSZX |-> SZX1024, keepalive |-> TRUE, onNewClientConn |-> TRUE]
    /\ ctxDone = FALSE
    /\ listen = "nil"
    /\ serve = [s \in Calls |-> NoServe]
    /\ conns = <<>>

MIDIdle == msgID = <<0, 0>> /\ mids = <<>>

CodecIdle == msg = NoMessage /\ buflen = 0 /\ wire = NoResult /\ out = NoResult

PoolIdle == NewPool

McastIdle ==
    /\ lock = "free"
    /\ mcfg = [connV4 |-> TRUE, errors |-> TRUE, onWriteTimeout |-> FALSE]
    /\ mcall = [m \in Mcasters |-> NoMcall]
    /\ mcsock = [by |-> "none", iface |-> 0]
    /\ nMcast = 0

\* the inbound side of one UDPConn
InitRead == NewUDPConn /\ ServerIdle /\ MIDIdle /\ CodecIdle /\ PoolIdle /\ McastIdle
NextRead ==
    \/ ReaderReadFromUDP
    \/ ReaderSend
    \/ ReadWithContext
    \/ ReadSelectRecv
    \/ ReadSelectDone
    \/ CancelRead
    \/ Close
SpecRead == InitRead /\ [][NextRead]_vars

\* the outbound side of one UDPConn
InitWrite == NewUDPConn /\ ServerIdle /\ MIDIdle /\ CodecIdle /\ PoolIdle /\ McastIdle
NextWrite ==
    \/ \E c \in Callers : WriteWithContext(c)
    \/ \E c \in Callers : WriteSelectSend(c)
    \/ \E c \in Callers : WriteSelectDone(c)
    \/ \E c \in Callers : CancelWrite(c)
    \/ WriterRange
    \/ WriterWriteToUDP
    \/ Close
SpecWrite == InitWrite /\ [][NextWrite]_vars

\* the outbound side with callers that overwrite their buffers after a call
InitCopy == InitWrite
NextCopy ==
    \/ NextWrite
    \/ \E c \in Callers : CallerMutatesBuffer(c)
SpecCopy == InitCopy /\ [][NextCopy]_vars

\* the server acceptor
InitServe == NewServer /\ NewUDPConn /\ MIDIdle /\ CodecIdle /\ PoolIdle /\ McastIdle
NextServe ==
    \/ \E s \in Calls : Serve(s)
    \/ \E s \in Calls : ServeLock(s)
    \/ \E s \in Calls : Accept(s)
    \/ \E s \in Calls : ServeWait(s)
    \/ \E s \in Calls : createClientConn(s)
    \/ \E s \in Calls : ServeOnNewClientConn(s)
    \/ \E s \in Calls : ServeGoRun(s)
    \/ \E s \in Calls : ServeGoKeepalive(s)
    \/ \E c \in 1..MaxConns : RunReturns(c)
    \/ \E c \in 1..MaxConns : KeepaliveReturns(c)
    \/ Stop
SpecServe == InitServe /\ [][NextServe]_vars

\* the message id counter
InitMID == msgID \in MIDHigh \X MIDLow /\ mids = <<>> /\ NewUDPConn /\ ServerIdle /\ CodecIdle /\ PoolIdle /\ McastIdle
NextMID == GetMID
SpecMID == InitMID /\ [][NextMID]_vars

\* the codec: one message is encoded and the datagram decoded
InitCodec ==
    /\ msg \in Messages \cup {TestVectors[i].msg : i \in 1..Len(TestVectors)}
    /\ buflen \in BufLens
    /\ wire = NoResult
    /\ out = NoResult
    /\ NewUDPConn /\ ServerIdle /\ MIDIdle /\ PoolIdle /\ McastIdle
NextCodec ==
    \/ CallMarshalTo
    \/ CallUnmarshal
SpecCodec == InitCodec /\ [][NextCodec]_vars

\* work submitted through goPool
InitPool == NewPool /\ NewUDPConn /\ ServerIdle /\ MIDIdle /\ CodecIdle /\ McastIdle
NextPool ==
    \/ \E s \in Sessions : goPool(s)
    \/ \E t \in 1..MaxTasks : TaskCall(t)
    \/ \E t \in 1..MaxTasks : TaskReturn(t)
SpecPool == InitPool /\ [][NextPool]_vars

\* concurrent WriteMulticast calls on one UDPConn
InitMulticast == NewMulticast /\ NewUDPConn /\ ServerIdle /\ MIDIdle /\ CodecIdle /\ PoolIdle
NextMulticast ==
    \/ \E m \in Mcasters : WriteMulticast(m)
    \/ \E m \in Mcasters : McastLock(m)
    \/ \E m \in Mcasters : McastNextIface(m)
    \/ \E m \in Mcasters : McastWriteToAddr(m)
    \/ \E m \in Mcasters : CancelMcast(m)
SpecMulticast == InitMulticast /\ [][NextMulticast]_vars

\* the server acceptor under fair scheduling: every Serve step that can run
\* does run, every AcceptWithContext call returns, every worker terminates
FairSpecServe ==
    /\ SpecServe
    /\ \A s \in Calls :
         /\ WF_vars(ServeLock(s))
         /\ WF_vars(Accept(s))
         /\ WF_vars(ServeWait(s))
         /\ WF_vars(createClientConn(s))
         /\ WF_vars(ServeOnNewClientConn(s))
         /\ WF_vars(ServeGoRun(s))
         /\ WF_vars(ServeGoKeepalive(s))
    /\ \A c \in 1..MaxConns :
         /\ WF_vars(RunReturns(c))
         /\ WF_vars(KeepaliveReturns(c))

\* ------------------------------------------------------------------------
\* Properties
\* ------------------------------------------------------------------------
\* C1: the datagrams WriteWithContext accepted are handed to the socket by the
\* writer task in the order they were placed on writePacketChan, each at most
\* once; a call has returned nil iff its datagram was placed on the queue
C1_WriteOrder ==
    /\ Len(socketWritten) <= Len(enqueued)
    /\ \A i \in 1..Len(socketWritten) : socketWritten[i].id = enqueued[i]
    /\ \A i, j \in 1..Len(socketWritten) :
         socketWritten[i].id = socketWritten[j].id => i = j
    /\ \A c \in Callers :
         (wcall[c].result = "nil") <=>
            (wcall[c].pc = "idle" /\ \E k \in 1..Len(enqueued) : enqueued[k] = wcall[c].id)

\* two datagrams were written while a third one, accepted before the second
\* was written, was queued
C1_Witness ==
    /\ Len(socketWritten) >= 2
    /\ Len(enqueued) >= 3

\* C2: when Serve has returned nil, every Run and keepalive worker it spawned
\* has terminated
C2_WorkersDone ==
    \A s \in Calls :
        (serve[s].pc = "returned" /\ serve[s].result = "nil") =>
            \A c \in 1..Len(conns) :
                conns[c].owner = s =>
                    /\ conns[c].run = "done"
                    /\ conns[c].keepalive = IF cfg.keepalive THEN "done" ELSE "none"

\* Serve returned nil after it had spawned a Run and a keepalive worker
C2_Witness ==
    \E s \in Calls, c \in 1..Len(conns) :
        /\ serve[s].pc = "returned" /\ serve[s].result = "nil"
        /\ conns[c].owner = s
        /\ conns[c].runs = 1 /\ conns[c].keepalives = 1

\* C3: once the server context is cancelled, a Serve call that is in its accept
\* loop eventually returns
C3_StopTerminates ==
    \A s \in Calls :
        (ctxDone /\ serve[s].pc = "accept") ~> (serve[s].pc = "returned")

\* C4: a ReadWithContext call that returns while packetChan is empty returns
\* (-1, nil, ctx.Err()) and its context is cancelled; a call that returns
\* ctx.Err() returns (-1, nil) and leaves packetChan and the packets delivered
\* so far as they were
C4_CancelledRead ==
    [][(rcall.pc = "select" /\ rcall'.pc = "idle") =>
          /\ packetChan = <<>> =>
                /\ rcall.ctx
                /\ rcall'.ret.err = "ctx.Err"
          /\ rcall'.ret.err = "ctx.Err" =>
                /\ rcall'.ret.n = -1
                /\ rcall'.ret.addr = "nil"
                /\ packetChan' = packetChan
                /\ delivered' = delivered]_vars

\* a call cancelled on an empty queue, and the next call returned a packet
C4_Witness ==
    /\ rcall.pc = "idle"
    /\ rcall.prev.err = "ctx.Err" /\ rcall.prev.queued = 0
    /\ rcall.ret.err = "nil"

\* C5: a WriteWithContext call (with a valid raddr) whose context was already
\* cancelled when it was made returns ctx.Err() and enqueues nothing
C5_CancelledWrite ==
    \A c \in Callers :
        (wcall[c].ctxAtCall /\ wcall[c].pc = "idle" /\ wcall[c].result # "invalid raddr") =>
            /\ wcall[c].result = "ctx.Err"
            /\ \A k \in 1..Len(enqueued) : enqueued[k] # wcall[c].id

\* the packets the reader task has read, as ReadWithContext reports them
Expected(q) == [i \in 1..Len(q) |-> [id |-> q[i].id, n |-> Len(q[i].data), addr |-> q[i].addr]]

\* C6: the packets returned by ReadWithContext, then the queued ones, then the
\* one the reader task holds, are the packets read from the socket, in order:
\* none lost, none duplicated, none reordered
C6_ReadOrder ==
    delivered \o Expected(packetChan)
              \o (IF reader.pc = "send" THEN Expected(<<reader.pkt>>) ELSE <<>>)
        = Expected(socketRead)

\* packets were returned while the reader task waits for room in packetChan
C6_Witness ==
    /\ Len(delivered) >= 1
    /\ rcall.ret.err = "nil"
    /\ Len(packetChan) = ChanCap
    /\ reader.pc = "send"

\* C7: each GetMID call returns the previous value plus one, modulo 2^16
C7_NextMID ==
    \A i \in 1..(Len(mids) - 1) : mids[i + 1] = (mids[i] + 1) % 65536

\* the Serve call that accepted connection c has finished handling it
Handled(c) ==
    ~ (/\ serve[conns[c].owner].cur = c
       /\ serve[conns[c].owner].pc \in {"create", "onNew", "goRun", "goKeepalive"})

\* C8 as stated: every accepted connection gets one session, one
\* onNewClientConn call before its Run worker starts, one Run worker, and a
\* keepalive worker iff a keepalive is configured
C8_Original ==
    \A c \in 1..Len(conns) :
        /\ conns[c].sessions <= 1 /\ conns[c].onNew <= 1
        /\ conns[c].runs <= 1 /\ conns[c].keepalives <= 1
        /\ conns[c].runs = 1 => conns[c].onNewBeforeRun
        /\ Handled(c) =>
              /\ conns[c].sessions = 1
              /\ conns[c].onNew = 1
              /\ conns[c].runs = 1
              /\ conns[c].keepalives = IF cfg.keepalive THEN 1 ELSE 0

\* C8 amended: onNewClientConn is called (once, before the Run worker starts)
\* iff the Server has an onNewClientConn function
C8_OneSession ==
    \A c \in 1..Len(conns) :
        /\ conns[c].sessions <= 1 /\ conns[c].onNew <= 1
        /\ conns[c].runs <= 1 /\ conns[c].keepalives <= 1
        /\ conns[c].runs = 1 => conns[c].sessions = 1
        /\ (conns[c].runs = 1 /\ cfg.onNewClientConn) => conns[c].onNewBeforeRun
        /\ Handled(c) =>
              /\ conns[c].sessions = 1
              /\ conns[c].onNew = IF cfg.onNewClientConn THEN 1 ELSE 0
              /\ conns[c].runs = 1
              /\ conns[c].keepalives = IF cfg.keepalive THEN 1 ELSE 0

\* a connection was handled by a Server that has an onNewClientConn function
\* and no keepalive
C8_Witness ==
    \E c \in 1..Len(conns) :
        /\ Handled(c)
        /\ cfg.onNewClientConn /\ ~cfg.keepalive
        /\ conns[c].onNew = 1 /\ conns[c].run = "running"

\* options are in ascending number order
Ascending(opts) == \A i \in 1..(Len(opts) - 1) : opts[i].id <= opts[i + 1].id

\* C9: a message with a token of at most 8 bytes, options within their declared
\* length bounds and a large enough buffer is encoded, and for options in
\* ascending number order decoding the datagram consumes the bytes MarshalTo
\* wrote and yields the same code, token, payload and option sequence
C9_RoundTrip ==
    /\ (/\ wire.err # "none"
        /\ Len(msg.token) <= 8
        /\ \A i \in 1..Len(msg.options) : validate(msg.options[i])
        /\ buflen = 1024) => wire.err = "nil"
    /\ (out.err # "none" /\ Ascending(msg.options)) =>
          /\ out.err = "nil"
          /\ out.n = wire.n
          /\ SameMessage(out.msg, msg)

\* a decoded message with an 8-byte token, two options of the same number and
\* a payload
C9_Witness ==
    /\ out.err = "nil"
    /\ Len(msg.token) = 8
    /\ Len(msg.options) = 2
    /\ msg.options[1].id = msg.options[2].id
    /\ msg.options[1].value # msg.options[2].value
    /\ msg.payload # <<>>

\* the datagram, walked option by option, has a 0xFF marker iff the payload is
\* not empty, and the bytes behind the marker are the payload
MarkerMatchesPayload ==
    wire.err = "nil" =>
        LET r == Unmarshal(wire.buf)
        IN /\ r.err = "nil"
           /\ (r.marker # 0) <=> (msg.payload # <<>>)
           /\ r.marker # 0 =>
                /\ wire.buf[r.marker] = 255
                /\ SubSeq(wire.buf, r.marker + 1, wire.n) = msg.payload
           /\ r.marker = 0 => wire.n = 4 + Len(msg.token)
                                       + Len(MarshalOptions(Sort(msg.options), 0))

\* C10 as stated: the marker goes with the payload, and a message without
\* token, options and payload is the 4 bytes 0x40 | TKL, code, message id
C10_Original ==
    /\ MarkerMatchesPayload
    /\ (wire.err = "nil" /\ msg.token = <<>> /\ msg.options = <<>> /\ msg.payload = <<>>) =>
          wire.buf = <<64 + Len(msg.token), msg.code, msg.mid \div 256, msg.mid % 256>>

\* C10 amended: the first byte carries the message type as well,
\* 0x40 | type << 4 | TKL
C10_Marker ==
    /\ MarkerMatchesPayload
    /\ (wire.err = "nil" /\ msg.token = <<>> /\ msg.options = <<>> /\ msg.payload = <<>>) =>
          wire.buf = <<64 + msg.type * 16 + Len(msg.token), msg.code,
                       msg.mid \div 256, msg.mid % 256>>
    /\ \A i \in 1..Len(TestVectors) :
          (wire.err = "nil" /\ msg = TestVectors[i].msg) => wire.buf = TestVectors[i].bytes

\* an encoded message with a token, an option whose value holds 0xFF and a
\* payload that starts with 0xFF
C10_Witness ==
    /\ wire.err = "nil"
    /\ msg.token # <<>>
    /\ \E i \in 1..Len(msg.options) : msg.options[i].value = <<255>>
    /\ msg.payload = <<255, 0>>

\* C11: a goPool submission returns nil with the submitted function spawned in
\* its own task and not yet finished; no step of a task, and no error a
\* function returns, changes what a submitter got back
C11_NoWait ==
    [][\A s \in Sessions :
          /\ submits'[s].result \in {"none", "nil"}
          /\ submits'[s].n # submits[s].n =>
                /\ submits'[s].result = "nil"
                /\ Len(tasks') = Len(tasks) + 1
                /\ tasks'[Len(tasks')].by = s
                /\ tasks'[Len(tasks')].st = "spawned"
                /\ SubSeq(tasks', 1, Len(tasks)) = tasks
          /\ submits'[s].n = submits[s].n => submits'[s] = submits[s]]_vars

\* a session submitted twice while its first function was still running, and
\* that function then returned an error
C11_Witness ==
    \E s \in Sessions :
        /\ submits[s].n >= 2 /\ submits[s].result = "nil"
        /\ Len(tasks) >= 2
        /\ tasks[1].by = s /\ tasks[1].err = "error" /\ tasks[1].printed
        /\ tasks[2].by = s /\ tasks[2].st = "running"

\* C12: Serve returns nil only from wg.Wait() with s.ctx done; an
\* AcceptWithContext error with s.ctx live leaves Serve in its accept loop,
\* reported to s.errors iff it is a context error; every other return of Serve
\* is one of the two errors raised before the accept loop
C12_ServeReturns ==
    [][\A s \in Calls :
          /\ (serve[s].pc = "accept" /\ serve'[s].iter # serve[s].iter
                /\ serve'[s].last \in {"ctx", "other"} /\ ~ctxDone) =>
                /\ serve'[s].pc = "accept"
                /\ serve'[s].reported = (serve'[s].last = "ctx")
          /\ (serve'[s].pc = "wait" /\ serve[s].pc # "wait") => ctxDone
          /\ (serve'[s].pc = "returned" /\ serve'[s] # serve[s]) =>
                \/ /\ serve'[s].result = "nil"
                   /\ serve[s].pc = "wait" /\ ctxDone
                \/ /\ serve'[s].result = "invalid blockwiseSZX"
                   /\ serve[s].pc \in {"idle", "returned"}
                \/ /\ serve'[s].result = "server already serve listener"
                   /\ serve[s].pc = "lock"]_vars

\* an accept that returned context.Canceled while s.ctx was live went to
\* s.errors and Serve kept accepting, with a connection already accepted
C12_Witness ==
    \E s \in Calls :
        /\ serve[s].pc = "accept" /\ ~ctxDone
        /\ serve[s].last = "ctx" /\ serve[s].reported
        /\ \E c \in 1..Len(conns) : conns[c].owner = s

\* C13: on a Server whose blockwiseSZX is above SZX1024 every Serve call
\* returns "invalid blockwiseSZX" at once: s.listen stays nil, AcceptWithContext
\* is never called, no connection is accepted and no worker is spawned
C13_InvalidSZX ==
    cfg.blockwiseSZX > SZX1024 =>
        /\ listen = "nil"
        /\ conns = <<>>
        /\ \A s \in Calls :
              /\ serve[s].pc \in {"idle", "returned"}
              /\ serve[s].pc = "returned" => serve[s].result = "invalid blockwiseSZX"
              /\ serve[s].last = "none"
              /\ serve[s].wg = 0

\* both Serve calls were made on a Server with blockwiseSZX = SZX1024 + 1
C13_Witness ==
    /\ cfg.blockwiseSZX = SZX1024 + 1
    /\ \A s \in Calls :
          serve[s].pc = "returned" /\ serve[s].result = "invalid blockwiseSZX"

\* C16: once a WriteMulticast call has made its first send and until it
\* returns, no other WriteMulticast call makes a send or changes the multicast
\* settings of the socket; c.lock is held only by a call that is in its
\* interface loop, so every return has released it
C16_MulticastExclusive ==
    [][\A m \in Mcasters :
          /\ (mcall[m].pc \in {"iface", "addr"} /\ mcall[m].log # <<>>) =>
                /\ \A o \in Mcasters \ {m} : Len(mcall'[o].log) <= Len(mcall[o].log)
                /\ mcsock' # mcsock => mcsock'.by = m
          /\ lock' = m => mcall'[m].pc \in {"iface", "addr"}]_vars

\* a call that returned an onWriteTimeout error has released c.lock: the other
\* call, made while the first one was sending, holds it and has sent
C16_Witness ==
    \E m, o \in Mcasters :
        /\ mcall[m].result = "on timeout returns error"
        /\ mcall[o].pc = "addr" /\ lock = o
        /\ mcall[o].log # <<>> /\ mcsock.by = o
        /\ nMcast = 2

\* what a step of WriteMulticast does with the result of one send, and what
\* WriteMulticast returns; reports tells whether a non-temporary error reaches
\* c.errors, early are the errors returned before c.lock is taken
SendFailures(reports, early) ==
    \A m \in Mcasters :
        /\ Len(mcall'[m].log) = Len(mcall[m].log) + 1 =>
              LET e == mcall'[m].log[Len(mcall'[m].log)] IN
              /\ e.outcome = "error" =>
                    /\ mcall'[m].pc = "addr"
                    /\ mcall'[m].i = mcall[m].i /\ mcall'[m].a = mcall[m].a + 1
                    /\ mcall'[m].reported = mcall[m].reported + (IF reports THEN 1 ELSE 0)
              /\ e.outcome = "temporary" =>
                    /\ mcall'[m].timeouts =
                          mcall[m].timeouts + (IF mcfg.onWriteTimeout THEN 1 ELSE 0)
                    /\ \/ mcall'[m].pc = "iface" /\ mcall'[m].i = mcall[m].i + 1
                       \/ /\ mcfg.onWriteTimeout
                          /\ mcall'[m].pc = "idle"
                          /\ mcall'[m].result = "on timeout returns error"
        /\ (mcall'[m].pc = "idle" /\ mcall'[m] # mcall[m]) =>
              /\ mcall'[m].result \in {"nil", "ctx.Err", "on timeout returns error"} \cup early
              /\ mcall'[m].result = "ctx.Err" => mcall[m].ctx
              /\ mcall'[m].result = "on timeout returns error" =>
                    /\ mcfg.onWriteTimeout
                    /\ mcall'[m].timeouts = mcall[m].timeouts + 1
              /\ mcall'[m].result \in early => mcall[m].pc = "idle"

\* C18 as stated: every non-temporary send error is reported to the error sink,
\* and WriteMulticast returns nil, ctx.Err() or the onWriteTimeout error
C18_Original == [][SendFailures(TRUE, {})]_vars

\* C18 amended: a non-temporary send error is reported iff the connection has
\* an error sink, and WriteMulticast also returns the three errors it raises
\* before taking c.lock
C18_SendFailures ==
    [][SendFailures(mcfg.errors, {"invalid raddr", "invalid destination address",
                                  "cannot get interfaces"})]_vars

\* a call returned nil although each of its sends failed: a non-temporary error
\* on the first address of eth0, a timeout on its second address, a timeout on
\* wlan0
C18_Witness ==
    \E m \in Mcasters :
        /\ mcall[m].pc = "idle" /\ mcall[m].result = "nil"
        /\ Len(mcall[m].log) = 3
        /\ mcall[m].log[1].outcome = "error"
        /\ mcall[m].log[2].outcome = "temporary"
        /\ mcall[m].log[3].outcome = "temporary" /\ mcall[m].log[3].iface = 5
        /\ mcall[m].reported = 1 /\ mcall[m].timeouts = 2

\* the datagram of the call of caller c is on writePacketChan or was on it
Placed(c) == \E k \in 1..Len(enqueued) : enqueued[k] = wcall[c].id

\* no step of a WriteWithContext call writes to the socket, takes c.lock or
\* touches what onWriteTimeout and the multicast path touch; a call is either
\* not running or waiting in its select
NoSocketAccess ==
    /\ \A c \in Callers : wcall'[c].pc \in {"idle", "select"}
    /\ (\E c \in Callers : wcall'[c] # wcall[c]) =>
          /\ socketWritten' = socketWritten
          /\ lock' = lock
          /\ UNCHANGED mcVars

\* C14 as stated: WriteWithContext never touches the socket, and a call that
\* has returned returned nil iff its datagram was placed on writePacketChan and
\* ctx.Err() iff it was not
C14_Original ==
    [][/\ NoSocketAccess
       /\ \A c \in Callers :
            (wcall'[c].pc = "idle" /\ wcall'[c].result # "none") =>
                /\ (wcall'[c].result = "nil") <=> Placed(c)'
                /\ (wcall'[c].result = "ctx.Err") <=> ~Placed(c)']_vars

\* C14 amended: a call with a nil raddr returns the invalid raddr error before
\* the copy and the select; every other call returns nil iff its datagram was
\* placed on writePacketChan and ctx.Err(), with its context cancelled, iff not
C14_QueueOnly ==
    [][/\ NoSocketAccess
       /\ \A c \in Callers :
            (wcall'[c].pc = "idle" /\ wcall'[c].result # "none") =>
                /\ wcall'[c].result \in {"nil", "ctx.Err", "invalid raddr"}
                /\ (wcall'[c].result = "nil") <=> Placed(c)'
                /\ wcall'[c].result = "ctx.Err" => wcall'[c].ctx
                /\ wcall'[c].result = "invalid raddr" => wcall'[c].data = <<>>]_vars

\* one call has returned nil with its datagram still queued and nothing written
\* to the socket, another has returned ctx.Err()
C14_Witness ==
    \E c, d \in Callers :
        /\ wcall[c].pc = "idle" /\ wcall[c].result = "nil"
        /\ \E k \in 1..Len(writePacketChan) : writePacketChan[k].id = wcall[c].id
        /\ socketWritten = <<>>
        /\ wcall[d].pc = "idle" /\ wcall[d].result = "ctx.Err"

\* C15: writePacketChan never holds more than ChanCap datagrams; while it is
\* full a call returns only ctx.Err(), with its context cancelled and nothing
\* enqueued; the queue changes only by a datagram added at its tail or by the
\* writer task taking its head
C15_QueueBound ==
    [][/\ Len(writePacketChan') <= ChanCap
       /\ Len(writePacketChan) = ChanCap =>
            \A c \in Callers :
                (wcall[c].pc = "select" /\ wcall'[c].pc = "idle") =>
                    /\ wcall'[c].result = "ctx.Err"
                    /\ wcall[c].ctx
                    /\ enqueued' = enqueued
                    /\ writePacketChan' = writePacketChan
       /\ \/ writePacketChan' = writePacketChan
          \/ /\ Len(writePacketChan') = Len(writePacketChan) + 1
             /\ SubSeq(writePacketChan', 1, Len(writePacketChan)) = writePacketChan
          \/ /\ writePacketChan # <<>>
             /\ writePacketChan' = Tail(writePacketChan)
             /\ writer'.pkt = Head(writePacketChan)]_vars

\* the queue is full and holds the two datagrams accepted so far; a third call
\* waits in its select, its context cancelled while it waited
C15_Witness ==
    /\ Len(writePacketChan) = ChanCap
    /\ Len(enqueued) = ChanCap
    /\ \E c \in Callers :
          wcall[c].pc = "select" /\ wcall[c].ctx /\ ~wcall[c].ctxAtCall

\* C19: every datagram queued or handed to the socket carries the bytes the
\* caller's buffer held when the call was made, whatever the caller does to the
\* buffer afterwards; a call does not change its caller's buffer
C19_PrivateCopy ==
    [][/\ \A i \in 1..Len(socketWritten') :
            socketWritten'[i].data = socketWritten'[i].orig
       /\ \A k \in 1..Len(writePacketChan') :
            writePacketChan'[k].data = writePacketChan'[k].orig
       /\ \A c \in Callers :
            /\ wcall[c].pc = "select" => wcall'[c].buffer = wcall[c].buffer
            /\ wcall'[c].id # wcall[c].id => wcall'[c].buffer = wcall'[c].orig]_vars

\* a datagram was written with the bytes of the call although its caller had
\* overwritten the buffer after the call returned
C19_Witness ==
    \E c \in Callers, i \in 1..Len(socketWritten) :
        /\ socketWritten[i].id = wcall[c].id
        /\ wcall[c].result = "nil"
        /\ wcall[c].buffer # wcall[c].orig
        /\ socketWritten[i].data = wcall[c].orig
        /\ ~socketWritten[i].err

\* C20: every datagram placed on writePacketChan is handed to the socket by the
\* writer task, also after a failed write: the writer task has not terminated
\* while a datagram that was placed on the queue is still to be written
C20_WrittenAfterFailure ==
    writer.pc = "stopped" =>
        \A k \in 1..Len(enqueued) :
            \E i \in 1..Len(socketWritten) : socketWritten[i].id = enqueued[k]

\* the steps of Serve between the registration of its listener and its return
AcceptLoop == {"accept", "create", "onNew", "goRun", "goKeepalive", "wait"}

\* C17: at most one Serve call has its listener registered and is accepting;
\* a Serve call that finds another one accepting returns "server already serve
\* listener" without touching s.listen and without an AcceptWithContext call;
\* the return of the accepting call clears s.listen
C17_OneServe ==
    [][/\ \A s, o \in Calls :
            (serve'[s].pc \in AcceptLoop /\ serve'[o].pc \in AcceptLoop) => s = o
       /\ \A s \in Calls :
            /\ serve'[s].pc \in AcceptLoop => listen' = s
            /\ (serve[s].pc = "lock" /\ serve'[s].pc # "lock"
                  /\ \E o \in Calls \ {s} : serve[o].pc \in AcceptLoop) =>
                  /\ serve'[s].pc = "returned"
                  /\ serve'[s].result = "server already serve listener"
                  /\ serve'[s].last = "none"
                  /\ listen' = listen
            /\ (serve[s].pc = "lock" /\ serve'[s].pc # "lock" /\ listen = "nil") =>
                  serve'[s].pc = "accept"
            /\ (serve[s].pc \in AcceptLoop /\ serve'[s].pc = "returned") =>
                  listen' = "nil"]_vars

\* a Serve call was refused while the other one was accepting, and after that
\* one returned nil a later call of the refused caller is accepting
C17_Witness ==
    \E s, o \in Calls :
        /\ serve[s].pc = "returned" /\ serve[s].result = "nil"
        /\ serve[o].pc = "accept" /\ listen = o
        /\ serve[o].last = "conn"

\* C21: a ReadWithContext call that has returned a nil error returned an n of
\* at most len(buffer), and buffer[0:n] holds the bytes of the datagram
C21_ReadFits ==
    (rcall.pc = "idle" /\ rcall.ret.err = "nil") =>
        /\ rcall.ret.n <= Len(rcall.buffer)
        /\ SubSeq(rcall.buffer, 1, rcall.ret.n) = socketRead[rcall.ret.id].data

\* C22: the values returned by consecutive GetMID calls are pairwise distinct
\* (any MaxMIDCalls consecutive calls lie within a window of 65535 calls)
C22_NoRepeat ==
    \A i, j \in 1..Len(mids) : mids[i] = mids[j] => i = j

\* C23: a ReadWithContext call returns either the head of packetChan with a nil
\* error, or (-1, nil, ctx.Err()) with its context cancelled; no step of a call
\* reads the socket or touches the reader task or the connection, whether or
\* not the reader task has stopped; with packetChan empty a call returns only
\* with its context cancelled
C23_TwoOutcomes ==
    [][/\ rcall'.pc \in {"idle", "select"}
       /\ rcall' # rcall =>
            /\ socketRead' = socketRead
            /\ reader' = reader
            /\ closed' = closed
       /\ (rcall.pc = "select" /\ rcall'.pc = "idle") =>
            \/ /\ rcall'.ret.err = "nil"
               /\ packetChan # <<>>
               /\ packetChan' = Tail(packetChan)
               /\ rcall'.ret.id = Head(packetChan).id
               /\ rcall'.ret.n = Len(Head(packetChan).data)
               /\ rcall'.ret.addr = Head(packetChan).addr
            \/ /\ rcall'.ret.err = "ctx.Err"
               /\ rcall'.ret.n = -1 /\ rcall'.ret.addr = "nil"
               /\ rcall.ctx
               /\ packetChan' = packetChan]_vars

\* the connection is closed and the reader task has stopped; the two packets
\* it had read have been returned, and the next call waits on the empty queue
\* with a live context
C23_Witness ==
    /\ closed /\ reader.pc = "stopped"
    /\ Len(socketRead) = 2 /\ Len(delivered) = 2
    /\ rcall.pc = "select" /\ ~rcall.ctx
    /\ rcall.prev.err = "nil" /\ rcall.prev.queued = 1
    /\ packetChan = <<>>

====
